---- MODULE Spec2Model ----
(***************************************************************************)
(* A model of pypsa/linopt.py: the token counters and the LP writers, the  *)
(* shape broadcaster, the expression renderer, the reference table kept on *)
(* the network object, and the three solver result readers.                *)
(*                                                                         *)
(* Text is modelled by TLA+ strings joined with \o.  Numbers are kept in   *)
(* tenths (10 is 1.0, -5 is -0.5) so that float formatting is computed.    *)
(***************************************************************************)
EXTENDS Integers, Sequences, FiniteSets, TLC

VARIABLES
    xCounter,       \* module global xCounter: [val, isFloat]
    cCounter,       \* module global cCounter: [val, isFloat]
    bounds_f,       \* n.bounds_f: the lines written so far
    constraints_f,  \* n.constraints_f: the records written so far
    xAllocated,     \* history: suffixes returned by write_bound since reset
    cAllocated,     \* history: suffixes returned by write_constraint since reset
    lastWrite,      \* the last writer call and its outcome
    lastCall,       \* the last call of a function without state, and its outcome
    variables,      \* n.variables: "deleted" or a table key -> entry
    constraints,    \* n.constraints: "deleted" or a table key -> entry
    pnl,            \* n.pnl(c): time-varying storage, c -> attr_name -> frame
    df,             \* n.df(c): static storage, c -> attr_name -> column
    lastSet,        \* history: the most recent effective set_*ref per key
    setLog,         \* the set_*ref calls that registered tokens, in order
    lastRef         \* the last reference-table call and its outcome

vars == <<xCounter, cCounter, bounds_f, constraints_f, xAllocated, cAllocated,
          lastWrite, lastCall, variables, constraints, pnl, df,
          lastSet, setLog, lastRef>>

writerVars == <<xCounter, cCounter, bounds_f, constraints_f, xAllocated,
                cAllocated, lastWrite>>
pureVars == <<lastCall>>
refVars == <<variables, constraints, pnl, df, lastSet, setLog, lastRef>>

-----------------------------------------------------------------------------
(* Text helpers *)

Last(s) == s[Len(s)]

\* the list f[1], ..., f[n]
RECURSIVE Listed(_, _)
Listed(f, n) == IF n = 0 THEN <<>> ELSE Append(Listed(f, n - 1), f[n])

DigitStr(d) ==
    CASE d = 0 -> "0" [] d = 1 -> "1" [] d = 2 -> "2" [] d = 3 -> "3"
      [] d = 4 -> "4" [] d = 5 -> "5" [] d = 6 -> "6" [] d = 7 -> "7"
      [] d = 8 -> "8" [] d = 9 -> "9"

RECURSIVE NatStr(_)
NatStr(n) == IF n < 10 THEN DigitStr(n) ELSE NatStr(n \div 10) \o DigitStr(n % 10)

Abs(v) == IF v < 0 THEN -v ELSE v

\* str(float(v)) for a value kept in tenths
FloatStr(t) ==
    (IF t < 0 THEN "-" ELSE "") \o NatStr(Abs(t) \div 10) \o "." \o DigitStr(Abs(t) % 10)

\* str(v) for an integer value kept in tenths
IntStr(t) == (IF t < 0 THEN "-" ELSE "") \o NatStr(Abs(t) \div 10)

RECURSIVE JoinAll(_)
JoinAll(s) == IF Len(s) = 0 THEN "" ELSE Head(s) \o JoinAll(Tail(s))

-----------------------------------------------------------------------------
(* Operands: python scalars, strings, pandas Series and DataFrames *)

Float(v) == [type |-> "float", axes |-> <<>>, dtype |-> "float", values |-> <<v>>]
Str(s) == [type |-> "str", axes |-> <<>>, dtype |-> "object", values |-> <<s>>]
Series(index, dtype, values) ==
    [type |-> "Series", axes |-> <<index>>, dtype |-> dtype, values |-> values]
DataFrame(index, columns, dtype, values) ==
    [type |-> "DataFrame", axes |-> <<index, columns>>, dtype |-> dtype, values |-> values]
\* a numpy array without labels; its axes carry positions only
NdArray(axes, dtype, values) ==
    [type |-> "ndarray", axes |-> axes, dtype |-> dtype, values |-> values]
Tuple(coeff, var) == [type |-> "tuple", items |-> <<coeff, var>>]

ShapeOfAxes(axes) == Listed([k \in 1..Len(axes) |-> Len(axes[k])], Len(axes))

RECURSIVE Product(_)
Product(shape) == IF Len(shape) = 0 THEN 1 ELSE Head(shape) * Product(Tail(shape))

\* np.prod(shape): the empty product is the float 1.0, any other an integer
NpProd(shape) == [val |-> Product(shape), isFloat |-> Len(shape) = 0]

-----------------------------------------------------------------------------
(* broadcasted_axes *)

\* (axes[-1] == df.axes[-1]).all() under the assert: comparing two Index
\* objects of different length raises ValueError, a differing label fails
\* the assertion
AlignedCheck(a, b) ==
    IF Len(a) # Len(b) THEN "ValueError"
    ELSE IF \A k \in 1..Len(a) : a[k] = b[k] THEN "none"
    ELSE "AssertionError"

\* sum(dfs, ()) when every member of dfs is a tuple
RECURSIVE SumTuples(_)
SumTuples(dfs) ==
    IF Len(dfs) = 0 THEN <<>> ELSE Head(dfs).items \o SumTuples(Tail(dfs))

BroadcastStep(st, d) ==
    IF d.type \in {"Series", "DataFrame"}
    THEN LET chk == IF Len(st.axes) > 0
                    THEN AlignedCheck(Last(st.axes), Last(d.axes))
                    ELSE "none"
             ax == IF Len(d.axes) > Len(st.axes) THEN d.axes ELSE st.axes
         IN IF chk # "none"
            THEN [st EXCEPT !.error = chk]
            ELSE [error |-> "none", axes |-> ax, shape |-> ShapeOfAxes(ax)]
    ELSE st

RECURSIVE BroadcastLoop(_, _)
BroadcastLoop(dfs, st) ==
    IF Len(dfs) = 0 \/ st.error # "none" THEN st
    ELSE BroadcastLoop(Tail(dfs), BroadcastStep(st, Head(dfs)))

broadcasted_axes(dfs) ==
    LET flat == IF {dfs[i].type : i \in 1..Len(dfs)} = {"tuple"}
                THEN SumTuples(dfs) ELSE dfs
    IN BroadcastLoop(flat, [error |-> "none", axes |-> <<>>, shape |-> <<>>])

-----------------------------------------------------------------------------
(* numpy elementwise text arithmetic *)

DimJoin(a, b) == IF a = 1 THEN b ELSE IF b = 1 \/ a = b THEN a ELSE -1

PadShape(s, n) ==
    Listed([k \in 1..n |-> IF k <= n - Len(s) THEN 1 ELSE s[k - (n - Len(s))]], n)

Max(a, b) == IF a >= b THEN a ELSE b

\* the broadcast of two shapes, or <<-1>> when numpy cannot broadcast them
NpShape(s1, s2) ==
    LET n == Max(Len(s1), Len(s2))
        p1 == PadShape(s1, n)
        p2 == PadShape(s2, n)
        j == Listed([k \in 1..n |-> DimJoin(p1[k], p2[k])], n)
    IN IF \E k \in 1..n : j[k] = -1 THEN <<-1>> ELSE j

\* zero-based coordinates of the i-th element (row-major) of an array of shape sh
Coords(sh, i) ==
    IF Len(sh) = 0 THEN <<>>
    ELSE IF Len(sh) = 1 THEN <<i - 1>>
    ELSE <<(i - 1) \div sh[2], (i - 1) % sh[2]>>

\* the element of arr that numpy pairs with element i of an array of shape sh
At(arr, sh, i) ==
    LET c == Coords(sh, i)
        s == arr.shape
        off == Len(sh) - Len(s)
        cc == Listed([k \in 1..Len(s) |-> IF s[k] = 1 THEN 0 ELSE c[k + off]], Len(s))
    IN IF Len(s) = 0 THEN arr.values[1]
       ELSE IF Len(s) = 1 THEN arr.values[cc[1] + 1]
       ELSE arr.values[cc[1] * s[2] + cc[2] + 1]

Failed(err) == [error |-> err, shape |-> <<>>, values |-> <<>>]

\* the shape of s + t, once the sum so far has a shape
JoinShape(s, t) == IF s = <<-1>> THEN s ELSE NpShape(s, t)

\* the shape of arrs[1] + ... + arrs[k], added left to right
RECURSIVE SumShape(_, _)
SumShape(arrs, k) ==
    IF k = 0 THEN <<>> ELSE JoinShape(SumShape(arrs, k - 1), arrs[k].shape)

FirstError(arrs) ==
    arrs[CHOOSE k \in 1..Len(arrs) :
            /\ arrs[k].error # "none"
            /\ \A m \in 1..(k - 1) : arrs[m].error = "none"].error

Joined(arrs, sh) ==
    [error |-> "none", shape |-> sh,
     values |-> Listed([i \in 1..Product(sh) |->
                           JoinAll(Listed([k \in 1..Len(arrs) |-> At(arrs[k], sh, i)],
                                          Len(arrs)))],
                       Product(sh))]

\* a1 + a2 + ... on arrays (or scalars) of text: the shapes are broadcast
\* pairwise, the texts are joined element by element
NpSum(arrs) ==
    IF \E k \in 1..Len(arrs) : arrs[k].error # "none" THEN Failed(FirstError(arrs))
    ELSE IF SumShape(arrs, Len(arrs)) = <<-1>> THEN Failed("ValueError")
    ELSE Joined(arrs, SumShape(arrs, Len(arrs)))

Text(s) == [error |-> "none", shape |-> <<>>, values |-> <<s>>]

\* np.array(list).reshape(shape)
Reshaped(list, shape) == [error |-> "none", shape |-> shape, values |-> list]

-----------------------------------------------------------------------------
(* _str_array *)

ScalarText(v) == IF v >= 0 THEN "+" \o FloatStr(v) \o " " ELSE FloatStr(v) \o " "

SignText(v) == IF v < 0 THEN "-" ELSE "+"

ElementText(dtype, v) ==
    SignText(v) \o (IF dtype = "int" THEN IntStr(Abs(v)) ELSE FloatStr(Abs(v))) \o " "

_str_array(array) ==
    IF array.type \in {"float", "int"}
    THEN Text(ScalarText(array.values[1]))
    ELSE IF array.type \in {"Series", "DataFrame", "ndarray"}
    THEN IF array.dtype # "object" /\ Len(array.values) > 0
         THEN Reshaped(Listed([i \in 1..Len(array.values) |->
                                  ElementText(array.dtype, array.values[i])],
                              Len(array.values)),
                       ShapeOfAxes(array.axes))
         ELSE Reshaped(array.values, ShapeOfAxes(array.axes))
    ELSE Text(array.values[1])

-----------------------------------------------------------------------------
(* linexpr *)

LinexprTerm(t) == NpSum(<<_str_array(t.items[1]), _str_array(t.items[2]), Text("\n")>>)

\* expr += term, in place: the sum must keep the shape of expr
KeepShape(e, r) ==
    IF r.error # "none" THEN r
    ELSE IF r.shape # e.shape THEN Failed("ValueError")
    ELSE r

InPlaceAdd(e, term) == KeepShape(e, NpSum(<<e, term>>))

\* lines 167-168: the loop over the pairs, from the k-th pair on
RECURSIVE LinexprLoop(_, _, _)
LinexprLoop(tuples, k, e) ==
    IF k > Len(tuples) \/ e.error # "none" THEN e
    ELSE LinexprLoop(tuples, k + 1, InPlaceAdd(e, LinexprTerm(tuples[k])))

Blank(n, shape) == Reshaped(Listed([i \in 1..n |-> ""], n), shape)

LinexprOn(tuples, b, n) ==
    IF b.error # "none" THEN Failed(b.error)
    ELSE IF n.isFloat  \* np.repeat('', 1.0)
    THEN Failed("TypeError")
    ELSE IF n.val # 0 THEN LinexprLoop(tuples, 1, Blank(n.val, b.shape))
    ELSE Reshaped(<<>>, b.shape)

LinexprShaped(tuples, b) == LinexprOn(tuples, b, NpProd(b.shape))

linexpr(tuples) == LinexprShaped(tuples, broadcasted_axes(tuples))

join_exprs(a) == JoinAll(a.values)

-----------------------------------------------------------------------------
(* write_bound, write_constraint, reset_counter *)

NoAxes == [kind |-> "None"]
IndexAxes(index) == [kind |-> "Index", index |-> index]
TupleAxes(items) == [kind |-> "tuple", items |-> items]

\* lines 42-46 and 66-70: the axes and the shape a writer works with
WriterAxes(a, b, axes) ==
    IF axes.kind = "None" THEN broadcasted_axes(<<a, b>>)
    ELSE LET ax == IF axes.kind = "Index" THEN <<axes.index>> ELSE axes.items
         IN [error |-> "none", axes |-> ax, shape |-> ShapeOfAxes(ax)]

\* counter += length
Advance(counter, length) ==
    [val |-> counter.val + length.val, isFloat |-> counter.isFloat \/ length.isFloat]

TokenRangeFromOne(counter, length) ==
    Listed([i \in 1..length.val |-> counter.val - length.val + i], length.val)

\* range(counter - length, counter): the suffixes, first to last
TokenRange(counter, length) ==
    Listed([i \in 1..length.val |-> counter.val - length.val + i - 1], length.val)

TokenText(prefix, k) == prefix \o NatStr(k)

Tokens(prefix, counter, length, shape) ==
    Reshaped(Listed([i \in 1..length.val |->
                        TokenText(prefix, TokenRange(counter, length)[i])],
                    length.val), shape)

BoundLines(lower, upper, tokens) ==
    NpSum(<<_str_array(lower), Text(" <= "), tokens, Text(" <= "),
            _str_array(upper), Text("\n")>>)

Sense(sense) == IF sense = "==" THEN "=" ELSE sense

ConstraintLines(lhs, sense, rhs, tokens) ==
    NpSum(<<tokens, Text(":\n"), _str_array(lhs), _str_array(Str(Sense(sense))),
            Text("\n"), _str_array(rhs), Text("\n\n")>>)

Raised(err, counter, b) ==
    [error |-> err, counter |-> counter, shaped |-> b.error = "none",
     shape |-> b.shape, tokens |-> <<>>, lines |-> <<>>]

\* lines 48-52 and 72-76: advance the counter, then name the new tokens
Allocate(prefix, counter, b) ==
    LET length == NpProd(b.shape)
        after == Advance(counter, length)
    IN IF b.error # "none" THEN Raised(b.error, counter, b)
       ELSE IF after.isFloat THEN Raised("TypeError", after, b)
       ELSE [error |-> "none", counter |-> after, shaped |-> TRUE, shape |-> b.shape,
             tokens |-> TokenRange(after, length),
             array |-> Tokens(prefix, after, length, b.shape)]

\* lines 54-56 and 80-82: write every line, return the tokens
Written(a, b, lines) ==
    IF lines.error # "none" THEN Raised(lines.error, a.counter, b)
    ELSE [error |-> "none", counter |-> a.counter, shaped |-> TRUE, shape |-> b.shape,
          tokens |-> a.tokens, lines |-> lines.values]

\* the outcome of a writer call: the error raised (or "none"), the counter it
\* leaves, the suffixes of the tokens returned and the lines written
write_bound(counter, lower, upper, axes) ==
    LET b == WriterAxes(lower, upper, axes)
        a == Allocate("x", counter, b)
    IN IF a.error # "none" THEN a
       ELSE Written(a, b, BoundLines(lower, upper, a.array))

write_constraint(counter, lhs, sense, rhs, axes) ==
    LET b == WriterAxes(lhs, rhs, axes)
        a == Allocate("c", counter, b)
    IN IF a.error # "none" THEN a
       ELSE Written(a, b, ConstraintLines(lhs, sense, rhs, a.array))

-----------------------------------------------------------------------------
(* The reference table and the two storage areas of the network *)

var_ref_suffix == "_varref"
con_ref_suffix == "_conref"

Components == {"Generator"}
Attrs == {"p"}
Keys == Components \X Attrs

\* n.df(c).index: the labels of the component's entities
ComponentIndex(c) == <<"a", "b">>

\* attr + suffix, kept as its two parts; `suffix in k` looks for a part
AttrName(attr, suffix) == <<attr, suffix>>
Contains(k, part) == \E i \in 1..Len(k) : k[i] = part
AttrNames == {AttrName(a, sfx) : a \in Attrs, sfx \in {var_ref_suffix, con_ref_suffix}}
\* n.pnl(c) also holds the component's own time series, such as p_set
SeriesNames == {<<"p_set">>}
PnlNames == AttrNames \cup SeriesNames

NoEntry == [registered |-> FALSE]
Entry(p, spec) == [registered |-> TRUE, pnl |-> p, specification |-> spec]
NaN == "NaN"

\* a slot of a storage area (a dict key, a frame column): empty or holding data
Absent == [present |-> FALSE]
Held(data) == [present |-> TRUE, data |-> data]

\* n.variables / n.constraints: an attribute of n that `del` removes
EmptyTable == [exists |-> TRUE, rows |-> [k \in Keys |-> NoEntry]]
Deleted == [exists |-> FALSE, rows |-> [k \in Keys |-> NoEntry]]

\* A token array handed to set_varref / set_conref: one token per label.  A
\* frame keeps one row (one snapshot); its columns are the labels.
Column(name, tok) == [name |-> name, tok |-> tok]
ColumnNames(frame) == {frame[i].name : i \in 1..Len(frame)}
ColumnOf(frame, name) == frame[CHOOSE i \in 1..Len(frame) : frame[i].name = name]

\* frame[new.columns] = new: a known column is overwritten where it stands,
\* a new one is appended
RECURSIVE SetColumns(_, _)
SetColumns(frame, new) ==
    IF Len(new) = 0 THEN frame
    ELSE LET col == Head(new)
             put == IF col.name \in ColumnNames(frame)
                    THEN [i \in 1..Len(frame) |->
                            IF frame[i].name = col.name THEN col ELSE frame[i]]
                    ELSE Append(frame, col)
         IN SetColumns(put, Tail(new))

\* frame.reindex(columns=index)
Reindex(frame, index) ==
    [i \in 1..Len(index) |->
        IF index[i] \in ColumnNames(frame) THEN ColumnOf(frame, index[i])
        ELSE Column(index[i], NaN)]

\* _add_reference with pnl=True, on the dict n.pnl(c)
AddPnl(store, c, attr_name, new) ==
    LET put == IF store[attr_name].present
               THEN SetColumns(store[attr_name].data, new)
               ELSE new
        fit == IF Len(put) = Len(ComponentIndex(c))
               THEN Reindex(put, ComponentIndex(c)) ELSE put
    IN [store EXCEPT ![attr_name] = Held(fit)]

\* _add_reference with pnl=False: n.df(c).loc[new.index, attr_name] = new
AddStatic(table, c, attr_name, new) ==
    LET old == IF table[attr_name].present THEN table[attr_name].data
               ELSE [l \in {ComponentIndex(c)[i] : i \in 1..Len(ComponentIndex(c))} |-> NaN]
    IN [table EXCEPT ![attr_name] =
           Held([l \in DOMAIN old |->
                   IF l \in ColumnNames(new) THEN ColumnOf(new, l).tok ELSE old[l]])]

_add_reference(n, toks, c, attr, suffix, p) ==
    IF p THEN [n EXCEPT !.pnl[c] = AddPnl(@, c, AttrName(attr, suffix), toks)]
    ELSE [n EXCEPT !.df[c] = AddStatic(@, c, AttrName(attr, suffix), toks)]

Done(n) == [error |-> "none", n |-> n]
Fails(err, n) == [error |-> err, n |-> n]

RegisterAnew(table, key, p, spec) == [table EXCEPT !.rows[key] = Entry(p, spec)]

\* lines 225-228 and 241-244: merge the provenance, or (re)write the entry
Register(table, key, p, spec) ==
    IF table.rows[key].registered /\ spec # ""
    THEN [table EXCEPT !.rows[key].specification = @ \o ", " \o spec]
    ELSE [table EXCEPT !.rows[key] = Entry(p, spec)]

set_varref(n, toks, c, attr, p, spec) ==
    IF Len(toks) = 0 THEN Done(n)
    ELSE IF ~n.variables.exists THEN Fails("AttributeError", n)
    ELSE Done(_add_reference(
                [n EXCEPT !.variables = Register(@, <<c, attr>>, p, spec)],
                toks, c, attr, var_ref_suffix, p))

set_conref(n, toks, c, attr, p, spec) ==
    IF Len(toks) = 0 THEN Done(n)
    ELSE IF ~n.constraints.exists THEN Fails("AttributeError", n)
    ELSE Done(_add_reference(
                [n EXCEPT !.constraints = Register(@, <<c, attr>>, p, spec)],
                toks, c, attr, con_ref_suffix, p))

Returns(ret, area, n) == [error |-> "none", ret |-> ret, area |-> area, n |-> n]
RaisesLookup(err, n) == [error |-> err, ret |-> Absent, area |-> "none", n |-> n]

FetchFromPnl(n, table, c, attr_name, key, pop) ==
    IF ~table.exists THEN RaisesLookup("AttributeError", n)
    ELSE IF ~table.rows[key].registered THEN RaisesLookup("KeyError", n)
    ELSE IF ~n.pnl[c][attr_name].present THEN RaisesLookup("KeyError", n)
    ELSE Returns(n.pnl[c][attr_name], "pnl",
                 IF pop THEN [n EXCEPT !.pnl[c][attr_name] = Absent] ELSE n)

\* the body shared by get_var and get_con: pick the area by the entry's pnl
\* flag, then index it or pop from it
Fetch(n, table, c, attr_name, key, pop) ==
    IF ~table.exists THEN RaisesLookup("AttributeError", n)
    ELSE IF ~table.rows[key].registered THEN RaisesLookup("KeyError", n)
    ELSE IF table.rows[key].pnl
    THEN IF ~n.pnl[c][attr_name].present THEN RaisesLookup("KeyError", n)
         ELSE Returns(n.pnl[c][attr_name], "pnl",
                      IF pop THEN [n EXCEPT !.pnl[c][attr_name] = Absent] ELSE n)
    ELSE IF ~n.df[c][attr_name].present THEN RaisesLookup("KeyError", n)
         ELSE Returns(n.df[c][attr_name], "df",
                      IF pop THEN [n EXCEPT !.df[c][attr_name] = Absent] ELSE n)

get_var(n, c, attr, pop) ==
    Fetch(n, n.variables, c, AttrName(attr, var_ref_suffix), <<c, attr>>, pop)

get_con(n, c, attr, pop) ==
    Fetch(n, n.constraints, c, AttrName(attr, con_ref_suffix), <<c, attr>>, pop)

\* python's unary minus on a bool, and the truth of the number it gives
Neg(b) == IF b THEN -1 ELSE 0
Truthy(v) == v # 0

\* line 308: (con_ref_suffix in k) or - (var_ref_suffix in k)
IsReference(k) == Contains(k, con_ref_suffix) \/ Truthy(Neg(Contains(k, var_ref_suffix)))

clear_references(n) ==
    [n EXCEPT !.pnl = [c \in Components |->
                          [k \in PnlNames |-> IF IsReference(k) THEN Absent ELSE n.pnl[c][k]]],
              !.variables = Deleted,
              !.constraints = Deleted]

-----------------------------------------------------------------------------
(* The solver result readers *)

None == [none |-> TRUE]
Some(v) == [none |-> FALSE, value |-> v]
Unbound == "<unbound local>"

Result(status, termination_condition, variables_sol, constraints_dual, objective) ==
    [error |-> "none", status |-> status,
     termination_condition |-> termination_condition,
     variables_sol |-> variables_sol, constraints_dual |-> constraints_dual,
     objective |-> objective]

Raise(err) ==
    [error |-> err, status |-> Unbound, termination_condition |-> Unbound,
     variables_sol |-> None, constraints_dual |-> None, objective |-> None]

\* return status, termination_condition, None, None, None: reading a local
\* that was never assigned raises UnboundLocalError
ReturnNoSolution(status, termination_condition) ==
    IF status = Unbound \/ termination_condition = Unbound
    THEN Raise("UnboundLocalError")
    ELSE Result(status, termination_condition, None, None, None)

\* rows of a solution table: the row name (prefix and number), its activity
\* and its dual.  The rows whose name does (keep) or does not start with prefix
NamedLike(rows, prefix, keep) ==
    LET F[i \in 0..Len(rows)] ==
          IF i = 0 THEN <<>>
          ELSE IF (rows[i].name[1] = prefix) = keep
               THEN Append(F[i - 1], rows[i]) ELSE F[i - 1]
    IN F[Len(rows)]

Activities(rows) == [i \in 1..Len(rows) |-> <<rows[i].name, rows[i].activity>>]
Duals(rows) == [i \in 1..Len(rows) |-> <<rows[i].name, rows[i].dual>>]

\* pd.to_numeric(marginal, 'coerce').fillna(0): a blank marginal counts as 0
Marginals(rows) ==
    [i \in 1..Len(rows) |->
        <<rows[i].name, IF rows[i].marginal.none THEN 0 ELSE rows[i].marginal.value>>]

\* data.startswith("Optimal - objective value"), on the words of the line
OptimalPrefix == <<"Optimal", "-", "objective", "value">>
StartsWith(words, prefix) ==
    Len(words) >= Len(prefix) /\ \A i \in 1..Len(prefix) : words[i] = prefix[i]
InLine(word, words) == \E i \in 1..Len(words) : words[i] = word

\* lines 347-374; file.first is the first line of the solution file (its
\* words, and the number its tail parses to), file.rows the table below it
run_and_read_cbc(file) ==
    LET optimal == StartsWith(file.first.words, OptimalPrefix)
        status == IF optimal THEN "optimal" ELSE Unbound
        termination_condition ==
            IF optimal THEN status
            ELSE IF InLine("Infeasible", file.first.words) THEN "infeasible"
            ELSE "other"
    IN IF termination_condition # "optimal"
       THEN ReturnNoSolution(status, termination_condition)
       ELSE Result(status, termination_condition,
                   Some(Activities(NamedLike(file.rows, "x", TRUE))),
                   Some(Duals(NamedLike(file.rows, "x", FALSE))),
                   Some(file.first.objective))

\* info.Status.lower().strip()
Lower(word) ==
    CASE word = "OPTIMAL" -> "optimal"
      [] word = "UNDEFINED" -> "undefined"
      [] word = "INFEASIBLE (FINAL)" -> "infeasible (final)"
      [] word = "INTEGER EMPTY" -> "integer empty"
      [] OTHER -> word

IsDigit(ch) == ch \in {"0", "1", "2", "3", "4", "5", "6", "7", "8", "9"}

\* re.sub('[^0-9]+', '', text), on the characters of the text
RECURSIVE DigitsOnly(_)
DigitsOnly(chars) ==
    IF Len(chars) = 0 THEN <<>>
    ELSE (IF IsDigit(Head(chars)) THEN <<Head(chars)>> ELSE <<>>) \o DigitsOnly(Tail(chars))

DigitValue(ch) == CHOOSE d \in 0..9 : DigitStr(d) = ch

\* float(digits), in tenths
RECURSIVE ParseDigits(_)
ParseDigits(chars) ==
    IF Len(chars) = 0 THEN 0
    ELSE 10 * ParseDigits(SubSeq(chars, 1, Len(chars) - 1)) + DigitValue(Last(chars))

\* lines 402-430; file.header is the colon-separated block of the file
run_and_read_glpk(file) ==
    LET status == Lower(file.header.Status)
        digits == DigitsOnly(file.header.Objective)
        objective == 10 * ParseDigits(digits)
        termination_condition == status
        sol == NamedLike(file.rows, "x", FALSE)
    IN IF Len(digits) = 0 THEN Raise("ValueError")
       ELSE IF termination_condition # "optimal"
       THEN ReturnNoSolution(status, termination_condition)
       ELSE Result(status, termination_condition,
                   Some(Activities(NamedLike(file.rows, "x", TRUE))),
                   Some(Marginals(NamedLike(sol, "c", TRUE))),
                   Some(objective))

\* gurobipy.GRB.Status, lower-cased
statusmap ==
    [code \in {1, 2, 3, 4, 5, 9} |->
        CASE code = 1 -> "loaded" [] code = 2 -> "optimal" [] code = 3 -> "infeasible"
          [] code = 4 -> "inf_or_unbd" [] code = 5 -> "unbounded" [] code = 9 -> "time_limit"]

\* lines 470-484; m is the solved model object
run_and_read_gurobi(m) ==
    LET status == statusmap[m.status]
        termination_condition == status
    IN IF termination_condition # "optimal"
       THEN ReturnNoSolution(status, termination_condition)
       ELSE Result(status, termination_condition,
                   Some(Activities(m.vars)),
                   Some(Duals(m.constrs)),
                   Some(m.ObjVal))

-----------------------------------------------------------------------------
(* Inputs *)

MaxLines == 4       \* lines and records a session writes before it stops
MaxCounter == 4     \* the highest value a token counter is taken to
MaxOperands == 2    \* operands handed to broadcasted_axes in one call
MaxSetCalls == 2    \* effective set_varref / set_conref calls in one run

ab == <<"a", "b">>
ac == <<"a", "c">>
t12 == <<"t1", "t2">>
t13 == <<"t1", "t3">>

\* labelled and unlabelled operands for the broadcaster
Operands ==
    { Float(10),
      Series(ab, "float", <<0, 0>>),
      Series(ac, "float", <<0, 0>>),
      Series(<<"a">>, "float", <<0>>),
      DataFrame(t12, ab, "float", <<0, 0, 0, 0>>),
      DataFrame(t13, ab, "float", <<0, 0, 0, 0>>),
      DataFrame(t12, ac, "float", <<0, 0, 0, 0>>) }

RECURSIVE SeqsUpTo(_, _)
SeqsUpTo(S, n) ==
    IF n = 0 THEN {<<>>}
    ELSE LET shorter == SeqsUpTo(S, n - 1)
         IN shorter \cup {Append(q, x) : q \in shorter, x \in S}

\* (coefficient, variable) pairs for linexpr
Pairs ==
    { Tuple(Float(10), Str("a1")),
      Tuple(Float(-5), Str("b1")),
      Tuple(Float(10), Series(<<0>>, "object", <<"a1">>)),
      Tuple(Series(<<0>>, "float", <<-5>>), Series(<<0>>, "object", <<"b1">>)),
      Tuple(Float(10), Series(<<0, 1>>, "object", <<"a1", "a2">>)),
      Tuple(Series(<<0, 1>>, "float", <<-5, -3>>), Series(<<0, 1>>, "object", <<"b1", "b2">>)) }

PairLists ==
    { <<>>, <<Tuple(Float(10), Str("a1"))>> }
    \cup {<<p, q>> : p \in Pairs, q \in Pairs}

\* lower and upper bounds for write_bound
Lowers ==
    { Float(0),
      Series(ab, "float", <<0, -5>>),
      Series(<<>>, "object", <<>>),
      DataFrame(t12, ab, "float", <<0, -5, 10, 15>>) }
Uppers ==
    { Float(10),
      Series(ab, "float", <<10, 20>>),
      Series(ac, "float", <<10, 20>>) }

\* left-hand sides (as linexpr renders them), senses and right-hand sides
Lhs ==
    { Str("+1.0 x0\n"),
      Series(ab, "object", <<"+1.0 x0\n-1.0 x1\n", "+2.0 x1\n">>) }
Senses == { "==", ">=" }
Rhs == { Float(0), Series(ab, "float", <<5, -5>>) }

IsLabelled(d) == d.type \in {"Series", "DataFrame"}

\* the axes argument: None, or, as the docstrings ask, explicit axes when
\* neither operand carries labels
AxesArgs(a, b) ==
    IF IsLabelled(a) \/ IsLabelled(b) THEN {NoAxes} ELSE {NoAxes, IndexAxes(ab)}

\* token arrays handed to set_varref / set_conref, by their labels
LabelLists == { <<>>, <<"a">>, <<"b", "a">> }
Specs == { "", "u", "v" }

\* solution files and solved models
Rows ==
    << [name |-> <<"x", 0>>, activity |-> 15, dual |-> 0, marginal |-> None],
       [name |-> <<"c", 0>>, activity |-> 0, dual |-> 25, marginal |-> Some(25)],
       [name |-> <<"c", 1>>, activity |-> 0, dual |-> 0, marginal |-> None] >>

CbcFirstLines ==
    { [words |-> <<"Optimal", "-", "objective", "value", "42.0">>, objective |-> 420],
      [words |-> <<"Infeasible", "-", "objective", "value", "0.0">>, objective |-> 0],
      [words |-> <<"Stopped", "on", "time", "-", "objective", "value", "7.0">>, objective |-> 70] }

GlpkHeaders ==
    { [Status |-> "OPTIMAL", Objective |-> <<"o", "b", "j", " ", "=", " ", "4", "2", " ">>],
      [Status |-> "UNDEFINED", Objective |-> <<"o", "b", "j", " ", "=", " ", "0", " ">>],
      [Status |-> "INFEASIBLE (FINAL)", Objective |-> <<"o", "b", "j", " ", "=", " ", "0", " ">>] }

GurobiModels ==
    { [status |-> code, ObjVal |-> 420,
       vars |-> NamedLike(Rows, "x", TRUE), constrs |-> NamedLike(Rows, "c", TRUE)]
      : code \in DOMAIN statusmap }

-----------------------------------------------------------------------------
(* The state machine *)

Zero == [val |-> 0, isFloat |-> FALSE]
Kinds == {"var", "con"}
NoSet == [set |-> FALSE]

\* the network object as the reference functions see it
N == [variables |-> variables, constraints |-> constraints, pnl |-> pnl, df |-> df]

Init ==
    /\ xCounter = Zero
    /\ cCounter = Zero
    /\ bounds_f = <<>>
    /\ constraints_f = <<>>
    /\ xAllocated = <<>>
    /\ cAllocated = <<>>
    /\ lastWrite = [op |-> "none"]
    /\ lastCall = [op |-> "none"]
    /\ variables = EmptyTable
    /\ constraints = EmptyTable
    /\ pnl = [c \in Components |->
                [k \in PnlNames |->
                    IF k \in SeriesNames
                    THEN Held(<<Column("a", "1.0"), Column("b", "1.0")>>)
                    ELSE Absent]]
    /\ df = [c \in Components |-> [k \in AttrNames |-> Absent]]
    /\ lastSet = [kk \in Kinds \X Keys |-> NoSet]
    /\ setLog = <<>>
    /\ lastRef = [op |-> "none", c |-> "", attr |-> "", pnl |-> FALSE, spec |-> "",
                  toks |-> <<>>, pop |-> FALSE, error |-> "none", ret |-> Absent,
                  area |-> "none", latest |-> NoSet]

ResetCounter ==
    /\ xCounter' = Zero
    /\ cCounter' = Zero
    /\ xAllocated' = <<>>
    /\ cAllocated' = <<>>
    /\ lastWrite' = [op |-> "reset_counter"]
    /\ UNCHANGED <<bounds_f, constraints_f, pureVars, refVars>>

WriteRecord(op, r, before, a, b, axes, other, otherSink) ==
    [op |-> op, error |-> r.error, before |-> before, shaped |-> r.shaped,
     shape |-> r.shape, tokens |-> r.tokens, lines |-> r.lines,
     a |-> a, b |-> b, axes |-> axes, other |-> other, otherSink |-> otherSink]

WriteBound(lower, upper, axes) ==
    \E r \in {write_bound(xCounter, lower, upper, axes)} :
       /\ Len(bounds_f) + Len(constraints_f) + Len(r.lines) <= MaxLines
       /\ r.counter.val <= MaxCounter
       /\ xCounter' = r.counter
       /\ bounds_f' = bounds_f \o r.lines
       /\ xAllocated' = xAllocated \o r.tokens
       /\ lastWrite' = WriteRecord("write_bound", r, xCounter, lower, upper, axes,
                                   cCounter, Len(constraints_f))
       /\ UNCHANGED <<cCounter, constraints_f, cAllocated, pureVars, refVars>>

WriteConstraint(lhs, sense, rhs, axes) ==
    \E r \in {write_constraint(cCounter, lhs, sense, rhs, axes)} :
       /\ Len(bounds_f) + Len(constraints_f) + Len(r.lines) <= MaxLines
       /\ r.counter.val <= MaxCounter
       /\ cCounter' = r.counter
       /\ constraints_f' = constraints_f \o r.lines
       /\ cAllocated' = cAllocated \o r.tokens
       /\ lastWrite' = WriteRecord("write_constraint", r, cCounter, lhs, rhs, axes,
                                   xCounter, Len(bounds_f))
       /\ UNCHANGED <<xCounter, bounds_f, xAllocated, pureVars, refVars>>

NextWriter ==
    \/ ResetCounter
    \/ \E lower \in Lowers, upper \in Uppers :
          \E axes \in AxesArgs(lower, upper) : WriteBound(lower, upper, axes)
    \/ \E lhs \in Lhs, sense \in Senses, rhs \in Rhs :
          \E axes \in AxesArgs(lhs, rhs) : WriteConstraint(lhs, sense, rhs, axes)

SpecWriter == Init /\ [][NextWriter]_vars

Call(op, input, result) == [op |-> op, input |-> input, result |-> result]

Broadcast(dfs) ==
    /\ lastCall' = Call("broadcasted_axes", dfs, broadcasted_axes(dfs))
    /\ UNCHANGED <<writerVars, refVars>>

Linexpr(tuples) ==
    /\ lastCall' = Call("linexpr", tuples, linexpr(tuples))
    /\ UNCHANGED <<writerVars, refVars>>

ReadCbc(file) ==
    /\ lastCall' = Call("run_and_read_cbc", file, run_and_read_cbc(file))
    /\ UNCHANGED <<writerVars, refVars>>

ReadGlpk(file) ==
    /\ lastCall' = Call("run_and_read_glpk", file, run_and_read_glpk(file))
    /\ UNCHANGED <<writerVars, refVars>>

ReadGurobi(m) ==
    /\ lastCall' = Call("run_and_read_gurobi", m, run_and_read_gurobi(m))
    /\ UNCHANGED <<writerVars, refVars>>

NextPure ==
    \/ \E dfs \in SeqsUpTo(Operands, MaxOperands) : Broadcast(dfs)
    \/ \E tuples \in PairLists : Linexpr(tuples)
    \/ \E first \in CbcFirstLines : ReadCbc([first |-> first, rows |-> Rows])
    \/ \E header \in GlpkHeaders : ReadGlpk([header |-> header, rows |-> Rows])
    \/ \E m \in GurobiModels : ReadGurobi(m)

SpecPure == Init /\ [][NextPure]_vars

\* the token array of one call: fresh tokens, one per label
TokenArray(prefix, labels, first) ==
    Listed([i \in 1..Len(labels) |-> Column(labels[i], TokenText(prefix, first + i - 1))],
           Len(labels))

Install(n) ==
    /\ variables' = n.variables
    /\ constraints' = n.constraints
    /\ pnl' = n.pnl
    /\ df' = n.df

SetRecord(op, c, attr, p, spec, toks, r) ==
    [op |-> op, c |-> c, attr |-> attr, pnl |-> p, spec |-> spec, toks |-> toks,
     pop |-> FALSE, error |-> r.error, ret |-> Absent, area |-> "none", latest |-> NoSet]

\* what a later get on the key is expected to find: the call's area and tokens
Noted(kind, c, attr, p, toks, r) ==
    IF Len(toks) = 0 \/ r.error # "none" THEN lastSet
    ELSE [lastSet EXCEPT ![<<kind, <<c, attr>>>>] = [set |-> TRUE, pnl |-> p, toks |-> toks]]

\* the calls that registered tokens, in order
Logged(kind, c, attr, p, spec, toks, r) ==
    IF Len(toks) = 0 \/ r.error # "none" THEN setLog
    ELSE Append(setLog, [kind |-> kind, key |-> <<c, attr>>, pnl |-> p, spec |-> spec])

SetVarref(labels, c, attr, p, spec) ==
    \E toks \in {TokenArray("x", labels, 2 * Len(setLog))} :
    \E r \in {set_varref(N, toks, c, attr, p, spec)} :
       /\ Len(setLog) < MaxSetCalls
       /\ Install(r.n)
       /\ lastSet' = Noted("var", c, attr, p, toks, r)
       /\ setLog' = Logged("var", c, attr, p, spec, toks, r)
       /\ lastRef' = SetRecord("set_varref", c, attr, p, spec, toks, r)
       /\ UNCHANGED <<writerVars, pureVars>>

SetConref(labels, c, attr, p, spec) ==
    \E toks \in {TokenArray("c", labels, 2 * Len(setLog))} :
    \E r \in {set_conref(N, toks, c, attr, p, spec)} :
       /\ Len(setLog) < MaxSetCalls
       /\ Install(r.n)
       /\ lastSet' = Noted("con", c, attr, p, toks, r)
       /\ setLog' = Logged("con", c, attr, p, spec, toks, r)
       /\ lastRef' = SetRecord("set_conref", c, attr, p, spec, toks, r)
       /\ UNCHANGED <<writerVars, pureVars>>

\* latest: the set call whose tokens the get is expected to find
GetRecord(op, kind, c, attr, pop, r) ==
    [op |-> op, c |-> c, attr |-> attr, pnl |-> FALSE, spec |-> "", toks |-> <<>>,
     pop |-> pop, error |-> r.error, ret |-> r.ret, area |-> r.area,
     latest |-> lastSet[<<kind, <<c, attr>>>>]]

\* a consumed array is no longer what a later get is expected to find
Forgotten(kind, c, attr, pop, r) ==
    IF pop /\ r.error = "none"
    THEN [lastSet EXCEPT ![<<kind, <<c, attr>>>>] = NoSet]
    ELSE lastSet

GetVar(c, attr, pop) ==
    \E r \in {get_var(N, c, attr, pop)} :
       /\ Install(r.n)
       /\ lastSet' = Forgotten("var", c, attr, pop, r)
       /\ lastRef' = GetRecord("get_var", "var", c, attr, pop, r)
       /\ UNCHANGED <<setLog, writerVars, pureVars>>

GetCon(c, attr, pop) ==
    \E r \in {get_con(N, c, attr, pop)} :
       /\ Install(r.n)
       /\ lastSet' = Forgotten("con", c, attr, pop, r)
       /\ lastRef' = GetRecord("get_con", "con", c, attr, pop, r)
       /\ UNCHANGED <<setLog, writerVars, pureVars>>

ClearReferences ==
    /\ Install(clear_references(N))
    /\ lastSet' = [kk \in Kinds \X Keys |-> NoSet]
    /\ lastRef' = [op |-> "clear_references", c |-> "", attr |-> "", pnl |-> FALSE,
                   spec |-> "", toks |-> <<>>, pop |-> FALSE, error |-> "none",
                   ret |-> Absent, area |-> "none", latest |-> NoSet]
    /\ UNCHANGED <<setLog, writerVars, pureVars>>

NextRefs ==
    \/ \E labels \in LabelLists, c \in Components, attr \in Attrs,
          p \in BOOLEAN, spec \in Specs : SetVarref(labels, c, attr, p, spec)
    \/ \E labels \in LabelLists, c \in Components, attr \in Attrs,
          p \in BOOLEAN, spec \in Specs : SetConref(labels, c, attr, p, spec)
    \/ \E c \in Components, attr \in Attrs, pop \in BOOLEAN : GetVar(c, attr, pop)
    \/ \E c \in Components, attr \in Attrs, pop \in BOOLEAN : GetCon(c, attr, pop)
    \/ ClearReferences

SpecRefs == Init /\ [][NextRefs]_vars

-----------------------------------------------------------------------------
(* Properties of the token counters and the writers *)

\* C1: between two reset_counter calls the suffixes of the variable tokens
\* returned by write_bound are 0, 1, 2, ... in allocation order, hence pairwise
\* distinct, and likewise the constraint tokens returned by write_constraint on
\* their own counter; after reset_counter the count starts again at 0.
C1_TokensContiguous ==
    /\ \A i \in 1..Len(xAllocated) : xAllocated[i] = i - 1
    /\ \A i \in 1..Len(cAllocated) : cAllocated[i] = i - 1
    /\ lastWrite.op \in {"write_bound", "write_constraint"} /\ lastWrite.error = "none"
          => \A i \in 1..Len(lastWrite.tokens) :
                lastWrite.tokens[i] = lastWrite.before.val + i - 1

\* a write_bound that returned tokens from suffix 0 on after a reset_counter
\* that followed earlier allocations
C1_Witness ==
    /\ lastWrite.op = "write_bound"
    /\ lastWrite.error = "none"
    /\ lastWrite.before = Zero
    /\ Len(lastWrite.tokens) > 0
    /\ Len(bounds_f) > Len(xAllocated)

\* C5: a write_bound whose shape has N elements, called at counter k, returns
\* x_k .. x_(k+N-1) in row-major order and appends N lines, the i-th naming
\* x_(k+i) between the i-th lower and the i-th upper bound; the constraints
\* sink and the constraint counter are left alone.
C5_WriteBoundAsStated ==
    lastWrite.op = "write_bound" /\ lastWrite.shaped
       => LET k == lastWrite.before.val
              n == Product(lastWrite.shape)
          IN /\ lastWrite.error = "none"
             /\ lastWrite.tokens = Listed([i \in 1..n |-> k + i - 1], n)
             /\ Len(lastWrite.lines) = n
             /\ \A i \in 1..n :
                   lastWrite.lines[i] =
                      At(_str_array(lastWrite.a), lastWrite.shape, i) \o " <= "
                      \o TokenText("x", k + i - 1) \o " <= "
                      \o At(_str_array(lastWrite.b), lastWrite.shape, i) \o "\n"
             /\ cCounter = lastWrite.other
             /\ Len(constraints_f) = lastWrite.otherSink

\* C9: a writer called with no labelled operand and no axes works on the shape
\* (), completes without error, appends nothing to its sink and leaves the
\* counter of its kind unchanged.
C9_EmptyShapeIsNoOp ==
    /\ lastWrite.op \in {"write_bound", "write_constraint"}
    /\ ~IsLabelled(lastWrite.a)
    /\ ~IsLabelled(lastWrite.b)
    /\ lastWrite.axes = NoAxes
    => /\ lastWrite.shape = <<>>
       /\ lastWrite.error = "none"
       /\ lastWrite.lines = <<>>
       /\ lastWrite.before = IF lastWrite.op = "write_bound" THEN xCounter ELSE cCounter

-----------------------------------------------------------------------------
(* Properties of the stateless functions *)

\* C2: every reader, given output that states a termination other than optimal,
\* returns (status, termination_condition, None, None, None) and does not raise.
C2_NonOptimalReturns ==
    LET StatesOptimal ==
           IF lastCall.op = "run_and_read_cbc"
           THEN StartsWith(lastCall.input.first.words, OptimalPrefix)
           ELSE IF lastCall.op = "run_and_read_glpk"
           THEN lastCall.input.header.Status = "OPTIMAL"
           ELSE lastCall.input.status = 2
    IN /\ lastCall.op \in {"run_and_read_cbc", "run_and_read_glpk", "run_and_read_gurobi"}
       /\ ~StatesOptimal
       => /\ lastCall.result.error = "none"
          /\ lastCall.result.status # Unbound
          /\ lastCall.result.termination_condition # "optimal"
          /\ lastCall.result.variables_sol = None
          /\ lastCall.result.constraints_dual = None
          /\ lastCall.result.objective = None

\* C4: broadcasted_axes raises whenever two labelled operands carry different
\* labels on a shared axis, the row axis of two 2-D operands included.
C4_MismatchRaises ==
    LET Disagree(d, e) ==
           IF Len(d.axes) = Len(e.axes) THEN d.axes # e.axes
           ELSE Last(d.axes) # Last(e.axes)
    IN
    /\ lastCall.op = "broadcasted_axes"
    /\ \E i, j \in 1..Len(lastCall.input) :
          /\ i < j
          /\ IsLabelled(lastCall.input[i])
          /\ IsLabelled(lastCall.input[j])
          /\ Disagree(lastCall.input[i], lastCall.input[j])
    => lastCall.result.error # "none"

\* C7: linexpr on the pairs (1, 'a1') and (-0.5, 'b1') yields exactly
\* '+1.0 a1 -0.5 b1 ' for every element: per pair the signed coefficient, a
\* space, the token and a space, in input order.  The pairs are taken as
\* scalars and as one-element Series.
C7_ExampleFragment ==
    LET ExamplePairs ==
           { <<Tuple(Float(10), Str("a1")), Tuple(Float(-5), Str("b1"))>>,
             <<Tuple(Float(10), Series(<<0>>, "object", <<"a1">>)),
               Tuple(Series(<<0>>, "float", <<-5>>), Series(<<0>>, "object", <<"b1">>))>> }
    IN lastCall.op = "linexpr" /\ lastCall.input \in ExamplePairs
       => /\ lastCall.result.error = "none"
          /\ Len(lastCall.result.values) > 0
          /\ \A i \in 1..Len(lastCall.result.values) :
                lastCall.result.values[i] = "+1.0 a1 -0.5 b1 "

-----------------------------------------------------------------------------
(* Properties of the reference table *)

\* C3: after exactly two registering set_varref (or set_conref) calls on one
\* key, both with a non-empty provenance, the table holds for that key the
\* first provenance, then ', ', then the second, and the flag of the first call.
C3_ProvenanceJoined ==
    \A kind \in Kinds, key \in Keys :
       LET Mine(e) == e.kind = kind /\ e.key = key
           calls == SelectSeq(setLog, Mine)
           table == IF kind = "var" THEN variables ELSE constraints
       IN Len(calls) = 2 /\ calls[1].spec # "" /\ calls[2].spec # "" /\ table.exists
             => table.rows[key] =
                   Entry(calls[1].pnl, calls[1].spec \o ", " \o calls[2].spec)

\* two set_varref calls on one key with provenances 'u' and 'v' and with
\* different flags
C3_Witness ==
    /\ Len(setLog) = 2
    /\ setLog[1].kind = "var" /\ setLog[2].kind = "var"
    /\ setLog[1].key = setLog[2].key
    /\ setLog[1].spec = "u" /\ setLog[2].spec = "v"
    /\ setLog[1].pnl /\ ~setLog[2].pnl
    /\ variables.exists
    /\ variables.rows[setLog[1].key].specification = "u, v"

\* C6: after clear_references no token array of any component and attribute is
\* left in the time-varying area or in the static area, and both reference
\* tables are gone.
C6_ClearLeavesNothing ==
    lastRef.op = "clear_references"
       => /\ \A c \in Components, k \in AttrNames :
                ~pnl[c][k].present /\ ~df[c][k].present
          /\ ~variables.exists
          /\ ~constraints.exists

\* C8: get_var / get_con on a registered key returns the array held in the
\* area the entry's flag selects; with pop the array is gone from that area
\* afterwards and the entry stays, without pop nothing changes; on a key that
\* was never registered the call fails with a lookup error.
C8_GetReadsFlaggedArea ==
    [][ lastRef'.op \in {"get_var", "get_con"}
        => LET r == lastRef'
               isVar == r.op = "get_var"
               table == IF isVar THEN variables ELSE constraints
               name == AttrName(r.attr, IF isVar THEN var_ref_suffix ELSE con_ref_suffix)
               key == <<r.c, r.attr>>
               time_varying == table.rows[key].pnl
               held == IF time_varying THEN pnl[r.c][name] ELSE df[r.c][name]
           IN /\ table.exists /\ table.rows[key].registered /\ held.present
                 => /\ r.error = "none"
                    /\ r.ret = held
                    /\ r.area = IF time_varying THEN "pnl" ELSE "df"
                    /\ UNCHANGED <<variables, constraints>>
                    /\ IF r.pop
                       THEN IF time_varying
                            THEN /\ pnl' = [pnl EXCEPT ![r.c][name] = Absent]
                                 /\ df' = df
                            ELSE /\ df' = [df EXCEPT ![r.c][name] = Absent]
                                 /\ pnl' = pnl
                       ELSE UNCHANGED <<pnl, df>>
              /\ table.exists /\ ~table.rows[key].registered
                 => /\ r.error = "KeyError"
                    /\ UNCHANGED <<variables, constraints, pnl, df>>
      ]_vars

\* get_var with pop on a key registered as static: the array has left the
\* static area and the entry is still there
C8_Witness ==
    /\ lastRef.op = "get_var"
    /\ lastRef.pop
    /\ lastRef.error = "none"
    /\ lastRef.area = "df"
    /\ variables.rows[<<lastRef.c, lastRef.attr>>].registered
    /\ ~variables.rows[<<lastRef.c, lastRef.attr>>].pnl
    /\ ~df[lastRef.c][AttrName(lastRef.attr, var_ref_suffix)].present

\* C10: get_var (get_con) reads the area into which the most recent set_varref
\* (set_conref) on the key wrote and returns that call's tokens at their
\* labels, whatever flags and provenances the calls on the key passed.
C10_GetReadsLatestArea ==
    lastRef.op \in {"get_var", "get_con"} /\ lastRef.latest.set
       => LET want == lastRef.latest
              TokenAt(label) ==
                 IF lastRef.area = "pnl"
                 THEN IF label \in ColumnNames(lastRef.ret.data)
                      THEN ColumnOf(lastRef.ret.data, label).tok ELSE NaN
                 ELSE lastRef.ret.data[label]
          IN /\ lastRef.error = "none"
             /\ lastRef.area = IF want.pnl THEN "pnl" ELSE "df"
             /\ \A i \in 1..Len(want.toks) : TokenAt(want.toks[i].name) = want.toks[i].tok

====
